---- MODULE Spec2Model ----
(***************************************************************************)
(* A model of the two console programs of the repository:                  *)
(*   lecture_2/main.py  the age/profile classifier                         *)
(*   lecture_3/main.py  the student grade tracker (menu loop)              *)
(* Strings are sequences of one-character strings; a Python float is an    *)
(* IEEE 754 binary64 value kept exactly as sign * m * 2^e with m an        *)
(* arbitrary-precision natural number, every float operation being the     *)
(* exact operation followed by round-to-nearest-even to 53 bits.           *)
(***************************************************************************)
EXTENDS Integers, Sequences, FiniteSets, TLC

(***************************************************************************)
(* Arbitrary-precision naturals: a sequence of digits below Base, least    *)
(* significant digit first, without high zero digits (zero is <<>>).       *)
(***************************************************************************)
Base == 2^14

DigitBits == 14

Pow2(k) == 2^k

Digit(a, i) == IF i <= Len(a) THEN a[i] ELSE 0

RECURSIVE BNorm(_)
BNorm(a) ==
    IF a = <<>> THEN <<>>
    ELSE IF a[Len(a)] = 0 THEN BNorm(SubSeq(a, 1, Len(a) - 1))
    ELSE a

RECURSIVE FromNat(_)
FromNat(n) == IF n = 0 THEN <<>> ELSE <<n % Base>> \o FromNat(n \div Base)

\* a + b: digit by digit, s the sum of the digits at i and the carry
RECURSIVE BAddFrom(_, _, _, _)
BAddFrom(a, b, i, s) ==
    IF i > Len(a) /\ i > Len(b)
    THEN FromNat(s)
    ELSE <<s % Base>> \o BAddFrom(a, b, i + 1, Digit(a, i + 1) + Digit(b, i + 1) + s \div Base)

BAdd(a, b) == BAddFrom(a, b, 1, Digit(a, 1) + Digit(b, 1))

\* a - b for a >= b: s the difference of the digits at i less the borrow
RECURSIVE BSubFrom(_, _, _, _)
BSubFrom(a, b, i, s) ==
    IF i > Len(a) THEN <<>>
    ELSE IF s < 0
    THEN <<s + Base>> \o BSubFrom(a, b, i + 1, Digit(a, i + 1) - Digit(b, i + 1) - 1)
    ELSE <<s>> \o BSubFrom(a, b, i + 1, Digit(a, i + 1) - Digit(b, i + 1))

BSub(a, b) == BNorm(BSubFrom(a, b, 1, Digit(a, 1) - Digit(b, 1)))

RECURSIVE BCmpFrom(_, _, _)
BCmpFrom(a, b, i) ==
    IF i = 0 THEN 0
    ELSE IF a[i] < b[i] THEN -1
    ELSE IF a[i] > b[i] THEN 1
    ELSE BCmpFrom(a, b, i - 1)

\* -1, 0, 1 as a < b, a = b, a > b
BCmp(a, b) ==
    IF Len(a) < Len(b) THEN -1
    ELSE IF Len(a) > Len(b) THEN 1
    ELSE BCmpFrom(a, b, Len(a))

\* a * k for a small natural k (k * Base fits a machine integer)
RECURSIVE BMulFrom(_, _, _, _)
BMulFrom(a, k, i, c) ==
    IF i > Len(a) THEN FromNat(c)
    ELSE <<(a[i] * k + c) % Base>> \o BMulFrom(a, k, i + 1, (a[i] * k + c) \div Base)

BMulSmall(a, k) == IF k = 0 THEN <<>> ELSE BMulFrom(a, k, 1, 0)

\* a / n for a small positive natural n, from the highest digit down:
\* [q |-> the quotient's digits, r |-> the remainder]
BDivCons(rest, d) == [q |-> Append(rest.q, d), r |-> rest.r]

RECURSIVE BDivFrom(_, _, _, _)
BDivFrom(a, n, i, r) ==
    IF i > Len(a) THEN [q |-> <<>>, r |-> r]
    ELSE BDivCons(BDivFrom(a, n, i + 1, (r * Base + a[Len(a) + 1 - i]) % n),
                  (r * Base + a[Len(a) + 1 - i]) \div n)

BDivNormalised(d) == [q |-> BNorm(d.q), r |-> d.r]

BDivSmall(a, n) == BDivNormalised(BDivFrom(a, n, 1, 0))

Zeros(k) == [i \in 1..k |-> 0]

\* a * 2^s
BShl(a, s) ==
    IF a = <<>> THEN <<>>
    ELSE Zeros(s \div DigitBits) \o BMulSmall(a, Pow2(s % DigitBits))

\* floor(a / 2^s)
BShr(a, s) ==
    IF Len(a) <= s \div DigitBits THEN <<>>
    ELSE BDivSmall(SubSeq(a, (s \div DigitBits) + 1, Len(a)), Pow2(s % DigitBits)).q

RECURSIVE NatBitLen(_)
NatBitLen(n) == IF n = 0 THEN 0 ELSE 1 + NatBitLen(n \div 2)

BitLen(a) == IF a = <<>> THEN 0 ELSE DigitBits * (Len(a) - 1) + NatBitLen(a[Len(a)])

BIsOdd(a) == a # <<>> /\ a[1] % 2 = 1

RECURSIVE NatTrailingZeros(_)
NatTrailingZeros(n) == IF n % 2 = 1 THEN 0 ELSE 1 + NatTrailingZeros(n \div 2)

\* the number of trailing zero bits of a # 0, its digits below i being 0
RECURSIVE TrailingZerosFrom(_, _)
TrailingZerosFrom(a, i) ==
    IF a[i] # 0 THEN (i - 1) * DigitBits + NatTrailingZeros(a[i])
    ELSE TrailingZerosFrom(a, i + 1)

TrailingZeros(a) == TrailingZerosFrom(a, 1)

(***************************************************************************)
(* Python floats (IEEE 754 binary64).  A finite value is                   *)
(* [k |-> "fin", s |-> sign, m |-> magnitude, e |-> exponent], standing    *)
(* for s * m * 2^e in canonical form: m odd, or m = <<>>, s = 1, e = 0 for *)
(* zero.  The grades the program accepts lie in [0, 100] and the inputs    *)
(* have few decimals, so no operation overflows or reaches the subnormal   *)
(* range; the rounding is that of the 53-bit significand.                  *)
(***************************************************************************)
Precision == 53

NaN == [k |-> "nan", s |-> 1, m |-> <<>>, e |-> 0]

Inf(sign) == [k |-> "inf", s |-> sign, m |-> <<>>, e |-> 0]

FZero == [k |-> "fin", s |-> 1, m |-> <<>>, e |-> 0]

\* sign * m * 2^e for m with t trailing zero bits
DShifted(sign, m, e, t) == [k |-> "fin", s |-> sign, m |-> BShr(m, t), e |-> e + t]

\* the canonical form of sign * m * 2^e
DNorm(sign, m, e) == IF m = <<>> THEN FZero ELSE DShifted(sign, m, e, TrailingZeros(m))

FromInt(n) == IF n < 0 THEN DNorm(-1, FromNat(-n), 0) ELSE DNorm(1, FromNat(n), 0)

DNeg(x) == IF x.m = <<>> THEN x ELSE [x EXCEPT !.s = -x.s]

\* sx * mx + sy * my as [s |-> sign, m |-> magnitude], c comparing mx with my
SignedSum(sx, mx, sy, my, c) ==
    IF sx = sy THEN [s |-> sx, m |-> BAdd(mx, my)]
    ELSE IF c >= 0 THEN [s |-> sx, m |-> BSub(mx, my)]
    ELSE [s |-> sy, m |-> BSub(my, mx)]

DOfSum(sum, e) == DNorm(sum.s, sum.m, e)

\* x + y for x and y not 0, e the smaller exponent
DAddAt(x, y, e) ==
    DOfSum(SignedSum(x.s, BShl(x.m, x.e - e), y.s, BShl(y.m, y.e - e),
                     BCmp(BShl(x.m, x.e - e), BShl(y.m, y.e - e))), e)

\* x + y, exactly
DAdd(x, y) ==
    IF x.m = <<>> THEN y
    ELSE IF y.m = <<>> THEN x
    ELSE DAddAt(x, y, IF x.e < y.e THEN x.e ELSE y.e)

DSub(x, y) == DAdd(x, DNeg(y))

\* x * n for a small natural n, exactly
DMulNat(x, n) == DNorm(x.s, BMulSmall(x.m, n), x.e)

\* x * 2^k, exactly
DScale(x, k) == IF x.m = <<>> THEN x ELSE [x EXCEPT !.e = x.e + k]

DSign(x) == IF x.m = <<>> THEN 0 ELSE x.s

DAbs(x) == [x EXCEPT !.s = 1]

\* comparisons of finite values (exact)
FLe(x, y) == DSign(DSub(x, y)) <= 0

FLt(x, y) == DSign(DSub(x, y)) < 0

\* x rounded to the quotient q of its magnitude by 2^k, c comparing the
\* remainder with one half: up when above, or at a tie to an odd q
RoundQuotient(x, k, q, c) ==
    DNorm(x.s, IF c > 0 \/ (c = 0 /\ BIsOdd(q)) THEN BAdd(q, <<1>>) ELSE q, x.e + k)

RoundDropping(x, k, q) ==
    RoundQuotient(x, k, q, BCmp(BSub(x.m, BShl(q, k)), BShl(<<1>>, k - 1)))

\* round-to-nearest, ties-to-even, of an exact value to the 53-bit significand
Round(x) ==
    IF BitLen(x.m) <= Precision THEN x
    ELSE RoundDropping(x, BitLen(x.m) - Precision, BShr(x.m, BitLen(x.m) - Precision))

\* float + float, float - float
FAdd(x, y) == Round(DAdd(x, y))

FSub(x, y) == Round(DSub(x, y))

\* the guard bits kept below the quotient's significand by FDivNat
DivShift == Precision + DigitBits + DigitBits

\* the quotient d.q with a sticky bit for a nonzero remainder d.r
WithSticky(d) == BAdd(BShl(d.q, 1), IF d.r = 0 THEN <<>> ELSE <<1>>)

FDivRounded(x, d) == Round(DNorm(x.s, WithSticky(d), x.e - DivShift - 1))

\* float / n for an integer n in 1..Base-1 (Python converts n to float, exactly):
\* the quotient of m * 2^DivShift by n, with a sticky bit, rounded once.
FDivNat(x, n) ==
    IF x.m = <<>> THEN x ELSE FDivRounded(x, BDivSmall(BShl(x.m, DivShift), n))

\* Python's None where a float is expected
None == [k |-> "none", s |-> 1, m |-> <<>>, e |-> 0]

(***************************************************************************)
(* Python strings: sequences of one-character strings.                     *)
(***************************************************************************)
UpperLetters ==
    <<"A", "B", "C", "D", "E", "F", "G", "H", "I", "J", "K", "L", "M",
      "N", "O", "P", "Q", "R", "S", "T", "U", "V", "W", "X", "Y", "Z">>

LowerLetters ==
    <<"a", "b", "c", "d", "e", "f", "g", "h", "i", "j", "k", "l", "m",
      "n", "o", "p", "q", "r", "s", "t", "u", "v", "w", "x", "y", "z">>

DecimalDigits == <<"0", "1", "2", "3", "4", "5", "6", "7", "8", "9">>

Whitespace == {" ", "\t"}

Range(f) == {f[i] : i \in DOMAIN f}

IndexOf(f, c) == CHOOSE i \in DOMAIN f : f[i] = c

\* str.lower(), one character
LowerChar(c) == IF c \in Range(UpperLetters) THEN LowerLetters[IndexOf(UpperLetters, c)] ELSE c

\* str.lower()
lower(str) == [i \in DOMAIN str |-> LowerChar(str[i])]

\* str.isalpha(): at least one character, and every character a letter
isalpha(str) ==
    /\ str # <<>>
    /\ \A i \in DOMAIN str : str[i] \in Range(UpperLetters) \cup Range(LowerLetters)

\* str.strip(): leading and trailing whitespace removed
RECURSIVE lstrip(_)
lstrip(str) ==
    IF str # <<>> /\ str[1] \in Whitespace THEN lstrip(Tail(str)) ELSE str

RECURSIVE rstrip(_)
rstrip(str) ==
    IF str # <<>> /\ str[Len(str)] \in Whitespace
    THEN rstrip(SubSeq(str, 1, Len(str) - 1))
    ELSE str

strip(str) == rstrip(lstrip(str))

IsDigits(str) == \A i \in DOMAIN str : str[i] \in Range(DecimalDigits)

\* the natural number a digit string denotes ("" denotes 0)
RECURSIVE DigitsValue(_)
DigitsValue(str) ==
    IF str = <<>> THEN 0
    ELSE 10 * DigitsValue(SubSeq(str, 1, Len(str) - 1))
         + (IndexOf(DecimalDigits, str[Len(str)]) - 1)

\* the decimal whole.frac, rounded once, with its sign
ParseDecimal(sign, whole, frac) ==
    IF IsDigits(whole) /\ IsDigits(frac) /\ Len(whole) + Len(frac) >= 1
    THEN [ok  |-> TRUE,
          val |-> DNorm(sign, FDivNat(FromInt(DigitsValue(whole \o frac)), 10^Len(frac)).m,
                        FDivNat(FromInt(DigitsValue(whole \o frac)), 10^Len(frac)).e)]
    ELSE [ok |-> FALSE, val |-> None]

ParseNumber(sign, body, points) ==
    IF points = {} THEN ParseDecimal(sign, body, <<>>)
    ELSE IF Cardinality(points) = 1
    THEN ParseDecimal(sign, SubSeq(body, 1, (CHOOSE i \in points : TRUE) - 1),
                      SubSeq(body, (CHOOSE i \in points : TRUE) + 1, Len(body)))
    ELSE [ok |-> FALSE, val |-> None]

ParseUnsigned(sign, body) ==
    IF body = <<"n", "a", "n">> THEN [ok |-> TRUE, val |-> NaN]
    ELSE IF body \in {<<"i", "n", "f">>, <<"i", "n", "f", "i", "n", "i", "t", "y">>}
    THEN [ok |-> TRUE, val |-> Inf(sign)]
    ELSE ParseNumber(sign, body, {i \in DOMAIN body : body[i] = "."})

ParseStripped(str) ==
    IF str # <<>> /\ str[1] = "-" THEN ParseUnsigned(-1, lower(Tail(str)))
    ELSE IF str # <<>> /\ str[1] = "+" THEN ParseUnsigned(1, lower(Tail(str)))
    ELSE ParseUnsigned(1, lower(str))

\* float(str) for the inputs of the model: an optional sign, then nan, inf,
\* infinity, or decimal digits with at most one point and at least one digit
\* (no exponent, no underscore; at most four decimals, so that 10^decimals is
\* below Base).  The decimal is rounded once, as float() rounds.  ok = FALSE
\* stands for ValueError.
float(str) == ParseStripped(strip(str))

\* int <= float <= int as Python compares them: every comparison with nan is False
FloatInRange(lo, x, hi) ==
    CASE x.k = "fin" -> FLe(FromInt(lo), x) /\ FLe(x, FromInt(hi))
      [] OTHER       -> FALSE

(***************************************************************************)
(* lecture_3/main.py: the pure helpers.  A student is                      *)
(* [name |-> string, grades |-> sequence of floats]; a roster is a         *)
(* sequence of students; a reference to a student of the roster is its     *)
(* position, 0 standing for None.                                          *)
(***************************************************************************)
\* a slip: the empty name passes
validate_student_name_allowing_empty(name) ==
    \A i \in DOMAIN name : name[i] \in Range(UpperLetters) \cup Range(LowerLetters)

validate_student_name(name) == isalpha(name)

\* a slip: no lower limit
validate_grade_without_lower_limit(grade) ==
    grade.k = "fin" /\ FLe(grade, FromInt(100))

validate_grade(grade) == FloatInRange(0, grade, 100)

SameNameIgnoringCase(student, name) == lower(student.name) = lower(name)

\* next(...) over the matching students: the first one, or None
FirstOf(found) == IF found = {} THEN 0 ELSE CHOOSE i \in found : \A j \in found : i <= j

\* a slip: the names compared as written
find_student_by_name_case_sensitive(students, name) ==
    FirstOf({i \in DOMAIN students : students[i].name = name})

find_student_by_name(students, name) ==
    FirstOf({i \in DOMAIN students : SameNameIgnoringCase(students[i], name)})

\* a slip: the names compared as written
is_duplicate_student_case_sensitive(students, name) ==
    \E i \in DOMAIN students : students[i].name = name

is_duplicate_student(students, name) ==
    \E i \in DOMAIN students : SameNameIgnoringCase(students[i], name)

\* sum() over floats (CPython 3.12 and later, which the f-string of
\* display_top_performer requires): 0 + the first item, then Neumaier's
\* compensated summation, the compensation added at the end when it is not 0.
Compensation(large, small, t) == FAdd(FSub(large, t), small)

RECURSIVE FSumFrom(_, _, _, _)
FSumStep(items, i, f_result, c, x, t) ==
    FSumFrom(items, i + 1, t,
             FAdd(c, IF FLe(DAbs(x), DAbs(f_result))
                     THEN Compensation(f_result, x, t)
                     ELSE Compensation(x, f_result, t)))

FSumFrom(items, i, f_result, c) ==
    IF i > Len(items)
    THEN (IF DSign(c) # 0 THEN FAdd(f_result, c) ELSE f_result)
    ELSE FSumStep(items, i, f_result, c, items[i], FAdd(f_result, items[i]))

FSum(items) == IF items = <<>> THEN FZero ELSE FSumFrom(items, 2, items[1], FZero)

calculate_average(grades) ==
    IF grades = <<>> THEN None ELSE FDivNat(FSum(grades), Len(grades))

\* max() and min() of a non-empty sequence: the first maximal (minimal) item
RECURSIVE PyMaxFrom(_, _, _)
PyMaxFrom(items, i, best) ==
    IF i > Len(items) THEN best
    ELSE PyMaxFrom(items, i + 1, IF FLt(best, items[i]) THEN items[i] ELSE best)

PyMax(items) == PyMaxFrom(items, 2, items[1])

RECURSIVE PyMinFrom(_, _, _)
PyMinFrom(items, i, best) ==
    IF i > Len(items) THEN best
    ELSE PyMinFrom(items, i + 1, IF FLt(items[i], best) THEN items[i] ELSE best)

PyMin(items) == PyMinFrom(items, 2, items[1])

\* a slip: a student without grades counted as averaging 0
AppendAverage_counting_none_as_zero(averages, avg) ==
    Append(averages, IF avg = None THEN FZero ELSE avg)

\* averages.append(avg) when avg is not None
AppendAverage(averages, avg) == IF avg # None THEN Append(averages, avg) ELSE averages

\* the loop of calculate_summary_statistics over the first i students
RECURSIVE CollectAverages(_, _)
CollectAverages(students, i) ==
    IF i = 0 THEN <<>>
    ELSE AppendAverage(CollectAverages(students, i - 1),
                       calculate_average(students[i].grades))

SummaryOf(averages) ==
    IF averages = <<>>
    THEN [highest |-> None, lowest |-> None, overall |-> None]
    ELSE [highest |-> PyMax(averages),
          lowest  |-> PyMin(averages),
          overall |-> FDivNat(FSum(averages), Len(averages))]

calculate_summary_statistics(students) ==
    SummaryOf(CollectAverages(students, Len(students)))

\* a slip: the students without grades not filtered out
StudentsWithGrades_unfiltered(students, i) == [j \in 1..Len(students) |-> j]

\* the positions of the students with a non-empty grades list, in roster order
RECURSIVE StudentsWithGrades(_, _)
StudentsWithGrades(students, i) ==
    IF i > Len(students) THEN <<>>
    ELSE (IF students[i].grades # <<>> THEN <<i>> ELSE <<>>)
         \o StudentsWithGrades(students, i + 1)

\* avg or 0 (None and 0.0 are falsy)
OrZero(avg) == IF avg = None \/ avg = FZero THEN FromInt(0) ELSE avg

\* the key of max()
TopKey(student) == OrZero(calculate_average(student.grades))

\* max(candidates, key=...): the first candidate with the largest key
RECURSIVE MaxByKey(_, _, _, _)
MaxByKey(students, candidates, i, best) ==
    IF i > Len(candidates) THEN best
    ELSE MaxByKey(students, candidates, i + 1,
                  IF FLt(TopKey(students[best]), TopKey(students[candidates[i]]))
                  THEN candidates[i] ELSE best)

TopOf(students, top_student) ==
    [top_student |-> top_student,
     top_avg     |-> calculate_average(students[top_student].grades)]

TopAmong(students, students_with_grades) ==
    IF students_with_grades = <<>>
    THEN [top_student |-> 0, top_avg |-> None]
    ELSE TopOf(students, MaxByKey(students, students_with_grades, 2, students_with_grades[1]))

find_top_performer_data(students) == TopAmong(students, StudentsWithGrades(students, 1))

create_new_student(name) == [name |-> name, grades |-> <<>>]

(***************************************************************************)
(* The state of the programs.                                              *)
(*   students      lecture_3 main: the roster                              *)
(*   pc            lecture_3 main: where the program is                    *)
(*   student       add_grades: the position of the student found (0: none) *)
(*   grades_added  add_grades_to_student: the counter of the entry session *)
(*   last_input    the line last read by input(), as its reader trimmed it *)
(*   out           the last message printed, with the values it shows      *)
(*   profile_pc, user_name, birth_year, current_age, hobbies, life_stage,  *)
(*   user_profile  lecture_2 main: its position and its locals             *)
(*   clock_year    the calendar year in which lecture_2 is run             *)
(***************************************************************************)
VARIABLES students, pc, student, grades_added, last_input, out,
          profile_pc, user_name, birth_year, current_age, hobbies, life_stage,
          user_profile, clock_year

trackerVars == <<students, pc, student, grades_added, last_input, out>>

profileVars == <<profile_pc, user_name, birth_year, current_age, hobbies, life_stage,
                 user_profile, clock_year>>

vars == <<trackerVars, profileVars>>

NoStatistics == [highest |-> None, lowest |-> None, overall |-> None]

NoTop == [top_student |-> 0, top_avg |-> None]

\* a printed message: its kind, the counts and the values it shows
Message(msg) == [msg |-> msg, n |-> 0, total |-> 0, statistics |-> NoStatistics, top |-> NoTop]

NoProfile == [name |-> <<>>, birth_year |-> 0, age |-> 0, life_stage |-> "", hobbies |-> <<>>]

\* lecture_2 not running
ProfileIdle ==
    /\ profile_pc = "idle" /\ user_name = <<>> /\ birth_year = 0 /\ current_age = 0
    /\ hobbies = <<>> /\ life_stage = "" /\ user_profile = NoProfile /\ clock_year = 0

\* lecture_3 not running
TrackerIdle ==
    /\ students = <<>> /\ pc = "idle" /\ student = 0 /\ grades_added = 0
    /\ last_input = <<>> /\ out = Message("")

(***************************************************************************)
(* lecture_3 main: the menu loop.  The lines typed at the prompts come     *)
(* from small sets; a student's grades list is capped at MaxGrades.        *)
(***************************************************************************)
MaxGrades == 2

ChoiceInputs ==
    {<<"1">>, <<" ", "2">>, <<"3">>, <<"4", " ">>, <<"5">>, <<"6">>, <<>>}

NameInputs ==
    {<<"A", "l">>, <<" ", "a", "l", " ">>, <<"B", "o">>, <<"B", "2">>, <<>>}

GradeInputs ==
    {<<"d", "o", "n", "e">>, <<" ", "D", "o", "n", "e">>, <<"a", "b", "c">>,
     <<"-", "1">>, <<"0">>, <<"1", "0", "0">>, <<"1", "0", "0", ".", "0", "1">>,
     <<"n", "a", "n">>}

Init ==
    /\ students = <<>>
    /\ pc = "display_menu"
    /\ student = 0
    /\ grades_added = 0
    /\ last_input = <<>>
    /\ out = Message("welcome")
    /\ ProfileIdle

\* main, line 361: display_menu(), outside the try block
DisplayMenu ==
    /\ UNCHANGED profileVars
    /\ pc = "display_menu"
    /\ pc' = "input_choice"
    /\ out' = Message("menu")
    /\ last_input' = <<>>
    /\ UNCHANGED <<students, student, grades_added>>

\* main, line 364: choice = input(...).strip()
ReadChoice(choice) ==
    /\ pc = "input_choice"
    /\ \E line \in ChoiceInputs : choice = strip(line)
    /\ last_input' = choice

\* choice '1': add_student is entered and asks for the name
ChooseAddStudent ==
    /\ UNCHANGED profileVars
    /\ ReadChoice(<<"1">>)
    /\ pc' = "add_student"
    /\ UNCHANGED <<students, student, grades_added, out>>

\* a slip: the new student inserted at the head of the roster
AddStudentNamed_at_head(name) ==
    /\ last_input' = name
    /\ IF ~validate_student_name(name)
       THEN /\ out' = Message("error_name_letters")
            /\ students' = students
       ELSE IF is_duplicate_student(students, name)
       THEN /\ out' = Message("error_already_exists")
            /\ students' = students
       ELSE /\ students' = <<create_new_student(name)>> \o students
            /\ out' = Message("student_added")

\* add_student on the trimmed name, to its return
AddStudentNamed(name) ==
    /\ last_input' = name
    /\ IF ~validate_student_name(name)
       THEN /\ out' = Message("error_name_letters")
            /\ students' = students
       ELSE IF is_duplicate_student(students, name)
       THEN /\ out' = Message("error_already_exists")
            /\ students' = students
       ELSE /\ students' = Append(students, create_new_student(name))
            /\ out' = Message("student_added")

\* add_student, from the name read to its return
AddStudent ==
    /\ UNCHANGED profileVars
    /\ pc = "add_student"
    /\ \E line \in NameInputs : AddStudentNamed(strip(line))
    /\ pc' = "display_menu"
    /\ UNCHANGED <<student, grades_added>>

\* choice '2': add_grades up to its request for the name
ChooseAddGrades ==
    /\ UNCHANGED profileVars
    /\ ReadChoice(<<"2">>)
    /\ IF students = <<>>
       THEN /\ out' = Message("error_no_students")
            /\ pc' = "display_menu"
       ELSE /\ out' = out
            /\ pc' = "add_grades"
    /\ UNCHANGED <<students, student, grades_added>>

\* add_grades on the trimmed name and the student found for it
AddGradesTo(name, found) ==
    /\ last_input' = name
    /\ IF found = 0
       THEN /\ out' = Message("error_not_found")
            /\ pc' = "display_menu"
            /\ student' = 0
       ELSE /\ out' = Message("adding_grades")
            /\ pc' = "grade_input"
            /\ student' = found

\* add_grades, from the name read to the first grade prompt (or its return)
AddGradesFind ==
    /\ UNCHANGED profileVars
    /\ pc = "add_grades"
    /\ \E line \in NameInputs :
         AddGradesTo(strip(line), find_student_by_name(students, strip(line)))
    /\ grades_added' = 0
    /\ UNCHANGED students

\* get_grade_input, from the line read: (grade_input, grade)
get_grade_input(grade_input) ==
    IF grade_input = <<"d", "o", "n", "e">> THEN None ELSE float(grade_input).val

\* add_grades_to_student: one turn of its loop on (grade_input, grade)
GradeTurn(grade_input, grade) ==
    /\ last_input' = grade_input
    /\ IF grade_input = <<"d", "o", "n", "e">>
       THEN /\ out' = [Message("completed") EXCEPT
                         !.n = grades_added,
                         !.total = Len(students[student].grades)]
            /\ pc' = "display_menu"
            /\ student' = 0
            /\ grades_added' = 0
            /\ students' = students
       ELSE IF grade = None
       THEN /\ out' = Message("error_invalid_input")
            /\ UNCHANGED <<pc, student, grades_added, students>>
       ELSE IF ~validate_grade(grade)
       THEN /\ out' = Message("error_grade_range")
            /\ UNCHANGED <<pc, student, grades_added, students>>
       ELSE /\ Len(students[student].grades) < MaxGrades
            /\ students' = [students EXCEPT ![student].grades = Append(@, grade)]
            /\ grades_added' = grades_added + 1
            /\ out' = Message("grade_added")
            /\ UNCHANGED <<pc, student>>

\* add_grades_to_student: one line read at the grade prompt
EnterGrade ==
    /\ UNCHANGED profileVars
    /\ pc = "grade_input"
    /\ \E line \in GradeInputs :
         GradeTurn(lower(strip(line)), get_grade_input(lower(strip(line))))

\* choice '3': show_report
ShowReport ==
    /\ UNCHANGED profileVars
    /\ ReadChoice(<<"3">>)
    /\ out' = IF students = <<>> THEN Message("no_students")
              ELSE [Message("report") EXCEPT
                      !.statistics = calculate_summary_statistics(students)]
    /\ pc' = "display_menu"
    /\ UNCHANGED <<students, student, grades_added>>

\* choice '4': find_top_performer
FindTopPerformer ==
    /\ UNCHANGED profileVars
    /\ ReadChoice(<<"4">>)
    /\ out' = IF students = <<>> THEN Message("error_no_students")
              ELSE [Message("top_performer") EXCEPT
                      !.top = find_top_performer_data(students)]
    /\ pc' = "display_menu"
    /\ UNCHANGED <<students, student, grades_added>>

\* choice '5': the loop is left
ExitChoice ==
    /\ UNCHANGED profileVars
    /\ ReadChoice(<<"5">>)
    /\ out' = Message("goodbye")
    /\ pc' = "exited"
    /\ UNCHANGED <<students, student, grades_added>>

\* any other choice
InvalidChoice ==
    /\ UNCHANGED profileVars
    /\ pc = "input_choice"
    /\ \E line \in ChoiceInputs :
         /\ strip(line) \notin {<<"1">>, <<"2">>, <<"3">>, <<"4">>, <<"5">>}
         /\ last_input' = strip(line)
    /\ out' = Message("error_invalid_choice")
    /\ pc' = "display_menu"
    /\ UNCHANGED <<students, student, grades_added>>

\* the places of the loop inside the try block (lines 363-380)
InsideTry == {"input_choice", "add_student", "add_grades", "grade_input"}

\* KeyboardInterrupt (Ctrl-C): raised wherever the program is.  Inside the try
\* block the handler of line 382 prints and breaks; at display_menu(), line
\* 361, no handler encloses it and it leaves main as an uncaught exception.
Interrupt ==
    /\ UNCHANGED profileVars
    /\ \/ /\ pc \in InsideTry
          /\ pc' = "exited"
          /\ out' = Message("interrupted")
       \/ /\ pc = "display_menu"
          /\ pc' = "traceback"
          /\ out' = Message("traceback")
    /\ student' = 0
    /\ grades_added' = 0
    /\ last_input' = <<>>
    /\ UNCHANGED students

\* any other exception inside the try block (input() raising EOFError on a
\* closed standard input): the handler of line 385 prints and the loop goes on
UnexpectedError ==
    /\ UNCHANGED profileVars
    /\ pc \in InsideTry
    /\ out' = Message("unexpected_error")
    /\ pc' = "display_menu"
    /\ student' = 0
    /\ grades_added' = 0
    /\ last_input' = <<>>
    /\ UNCHANGED students

Next ==
    \/ DisplayMenu
    \/ ChooseAddStudent
    \/ AddStudent
    \/ ChooseAddGrades
    \/ AddGradesFind
    \/ EnterGrade
    \/ ShowReport
    \/ FindTopPerformer
    \/ ExitChoice
    \/ InvalidChoice
    \/ Interrupt
    \/ UnexpectedError

Spec == Init /\ [][Next]_vars

(***************************************************************************)
(* The report handlers on every roster of a bounded shape: the program at  *)
(* its choice prompt with up to MaxRoster students, each with one of the   *)
(* grade lists typed as ReportGradeLines.  The names are a, aa, aaa, ...   *)
(* in roster order.                                                        *)
(***************************************************************************)
MaxRoster == 3

ReportGradeLines ==
    {<<>>,
     <<<<"0">>>>,
     <<<<"0", ".", "1">>>>,
     <<<<"0", ".", "1">>, <<"0", ".", "1">>, <<"0", ".", "1">>>>,
     <<<<"0">>, <<"1", "0", "0">>>>,
     <<<<"1", "0", "0">>, <<"0", ".", "1">>>>}

GradeLists == {[i \in DOMAIN lines |-> float(lines[i]).val] : lines \in ReportGradeLines}

ReportName(i) == [j \in 1..i |-> "a"]

ReportRoster(g) == [i \in DOMAIN g |-> [name |-> ReportName(i), grades |-> g[i]]]

ReportInit ==
    /\ \E n \in 0..MaxRoster : \E g \in [1..n -> GradeLists] : students = ReportRoster(g)
    /\ pc = "input_choice"
    /\ student = 0
    /\ grades_added = 0
    /\ last_input = <<>>
    /\ out = Message("menu")
    /\ ProfileIdle

ReportNext ==
    \/ ShowReport
    \/ FindTopPerformer

ReportSpec == ReportInit /\ [][ReportNext]_vars

(***************************************************************************)
(* lecture_2/main.py                                                       *)
(***************************************************************************)
\* a slip: the upper limit of Child excluded
generate_profile_child_below_12(age) ==
    IF 0 <= age /\ age < 12 THEN "Child"
    ELSE IF 13 <= age /\ age <= 19 THEN "Teenager"
    ELSE IF age >= 20 THEN "Adult"
    ELSE "Unknown"

generate_profile(age) ==
    IF 0 <= age /\ age <= 12 THEN "Child"
    ELSE IF 13 <= age /\ age <= 19 THEN "Teenager"
    ELSE IF age >= 20 THEN "Adult"
    ELSE "Unknown"

\* the year written in the age computation of main
CodeYear == 2025

\* the oldest age entered, and the years past CodeYear (of a run, of a birth)
MaxAge == 21

MaxYearsAhead == 1

MaxHobbies == 2

\* str(n) for a natural number n
RECURSIVE NatToStr(_)
NatToStr(n) ==
    IF n < 10 THEN <<DecimalDigits[n + 1]>>
    ELSE Append(NatToStr(n \div 10), DecimalDigits[(n % 10) + 1])

\* int(str) on the trimmed line: an optional sign and decimal digits;
\* ok = FALSE stands for ValueError
IntOfDigits(sign, digits) ==
    IF digits # <<>> /\ IsDigits(digits)
    THEN [ok |-> TRUE, val |-> sign * DigitsValue(digits)]
    ELSE [ok |-> FALSE, val |-> 0]

IntOfStripped(str) ==
    IF str # <<>> /\ str[1] = "-" THEN IntOfDigits(-1, Tail(str))
    ELSE IF str # <<>> /\ str[1] = "+" THEN IntOfDigits(1, Tail(str))
    ELSE IntOfDigits(1, str)

int(str) == IntOfStripped(strip(str))

UserNameInputs == {<<"A", "n", "n">>, <<"B", "o", " ", "L", "i">>}

BirthYearInputs ==
    {NatToStr(y) : y \in (CodeYear - MaxAge)..(CodeYear + MaxYearsAhead)}
    \cup {<<"x">>, <<>>}

HobbyInputs ==
    {<<"c", "h", "e", "s", "s">>, <<"s", "t", "o", "p", " ">>,
     <<"s", "t", "o", "p">>, <<"S", "t", "O", "P">>}

STOP == <<"s", "t", "o", "p">>

ProfileInit ==
    /\ TrackerIdle
    /\ profile_pc = "input_name"
    /\ clock_year \in CodeYear..(CodeYear + MaxYearsAhead)
    /\ user_name = <<>>
    /\ birth_year = 0
    /\ current_age = 0
    /\ hobbies = <<>>
    /\ life_stage = ""
    /\ user_profile = NoProfile

\* line 14
EnterName ==
    /\ profile_pc = "input_name"
    /\ user_name' \in UserNameInputs
    /\ profile_pc' = "input_birth_year"
    /\ UNCHANGED <<birth_year, current_age, hobbies, life_stage, user_profile, clock_year>>
    /\ UNCHANGED trackerVars

\* lines 18-22 on the year parsed
AgeFrom(year) ==
    IF year.ok
    THEN /\ birth_year' = year.val
         /\ current_age' = CodeYear - year.val
         /\ profile_pc' = "input_hobby"
    ELSE /\ profile_pc' = "value_error"
         /\ UNCHANGED <<birth_year, current_age>>

\* lines 15-22
EnterBirthYear ==
    /\ profile_pc = "input_birth_year"
    /\ \E birth_year_str \in BirthYearInputs : AgeFrom(int(birth_year_str))
    /\ UNCHANGED <<user_name, hobbies, life_stage, user_profile, clock_year>>
    /\ UNCHANGED trackerVars

\* lines 30-39 (the summary printed after them shows user_profile)
BuildProfile(stage) ==
    /\ life_stage' = stage
    /\ user_profile' = [name |-> user_name, birth_year |-> birth_year,
                        age |-> current_age, life_stage |-> stage,
                        hobbies |-> hobbies]

\* lines 24-39: one turn of the hobby loop and, on stop, the rest of main
EnterHobby ==
    /\ profile_pc = "input_hobby"
    /\ \E hobby \in HobbyInputs :
         IF lower(hobby) = STOP
         THEN /\ BuildProfile(generate_profile(current_age))
              /\ profile_pc' = "done"
              /\ hobbies' = hobbies
         ELSE /\ Len(hobbies) < MaxHobbies
              /\ hobbies' = Append(hobbies, hobby)
              /\ UNCHANGED <<profile_pc, life_stage, user_profile>>
    /\ UNCHANGED <<user_name, birth_year, current_age, clock_year>>
    /\ UNCHANGED trackerVars

ProfileNext ==
    \/ EnterName
    \/ EnterBirthYear
    \/ EnterHobby

ProfileSpec == ProfileInit /\ [][ProfileNext]_vars

(***************************************************************************)
(* The properties checked.                                                 *)
(***************************************************************************)
IsPrefix(a, b) == Len(a) <= Len(b) /\ \A i \in DOMAIN a : a[i] = b[i]

Names(roster) == [i \in DOMAIN roster |-> roster[i].name]

\* the steps of the grade tracker, told by where they start and what they print
AddStudentStep ==
    /\ pc = "add_student"
    /\ out'.msg \in {"error_name_letters", "error_already_exists", "student_added"}

AddGradesFindStep ==
    /\ pc = "add_grades"
    /\ out'.msg \in {"error_not_found", "adding_grades"}

GradeLoopStep ==
    /\ pc = "grade_input"
    /\ out'.msg \in {"error_invalid_input", "error_grade_range", "grade_added"}

GradeDoneStep == pc = "grade_input" /\ out'.msg = "completed"

ChoiceStep ==
    /\ pc = "input_choice"
    /\ out'.msg \notin {"interrupted", "unexpected_error"}

\* C1: in every reachable state of the grade tracker no two distinct students
\* of the roster have names that are equal when compared case-insensitively.
C1_UniqueNamesIgnoringCase ==
    \A i, j \in DOMAIN students :
        i # j => lower(students[i].name) # lower(students[j].name)

\* C1: a name differing only in case from a student's has just been refused
C1_Witness ==
    /\ out.msg = "error_already_exists"
    /\ \E i \in DOMAIN students :
          /\ students[i].name # last_input
          /\ lower(students[i].name) = lower(last_input)

\* C2: add_student on the trimmed name leaves the roster exactly unchanged when
\* the name is not purely alphabetic (the empty name included) or equals an
\* existing student's name case-insensitively; otherwise it appends exactly one
\* student with that name as entered and no grades, the earlier ones unchanged.
C2_AddStudentContract ==
    [][AddStudentStep =>
         IF \/ last_input' = <<>>
            \/ \E k \in DOMAIN last_input' :
                  last_input'[k] \notin Range(UpperLetters) \cup Range(LowerLetters)
            \/ \E i \in DOMAIN students : lower(students[i].name) = lower(last_input')
         THEN students' = students /\ out'.msg # "student_added"
         ELSE /\ students' = students \o <<[name |-> last_input', grades |-> <<>>]>>
              /\ out'.msg = "student_added"]_vars

\* C2: a second student has been appended behind one that already has grades
C2_Witness ==
    /\ out.msg = "student_added"
    /\ Len(students) = 2
    /\ students[1].grades # <<>>
    /\ students[2] = [name |-> last_input, grades |-> <<>>]

InClosedRange(x) ==
    /\ x.k = "fin"
    /\ DSign(x) >= 0
    /\ DSign(DSub(x, FromInt(100))) <= 0

AllGradesInRange(roster) ==
    \A i \in DOMAIN roster :
        \A j \in DOMAIN roster[i].grades : InClosedRange(roster[i].grades[j])

\* the parsed text is a number of [0, 100]
NumericInRange(parsed) == parsed.ok /\ InClosedRange(parsed.val)

\* C3: every stored grade is a number of [0, 100]; at the grade prompt a
\* non-numeric text or a value below 0 or above 100 leaves the grades
\* unchanged, a number of [0, 100] is appended to the end of that student's
\* grades (and to nothing else); the counter starts at 0, counts exactly the
\* grades appended, and is the number reported at 'done'.
C3_GradeEntry ==
    [][/\ \A roster \in {students'} : AllGradesInRange(roster)
       /\ (AddGradesFindStep /\ pc' = "grade_input") => grades_added' = 0
       /\ GradeLoopStep =>
            \A text \in {last_input'} : \A parsed \in {float(text)} :
                IF NumericInRange(parsed)
                THEN /\ students' = [students EXCEPT ![student].grades =
                                       Append(@, parsed.val)]
                     /\ grades_added' = grades_added + 1
                     /\ out'.msg = "grade_added"
                ELSE /\ students' = students
                     /\ grades_added' = grades_added
                     /\ out'.msg # "grade_added"
       /\ GradeDoneStep =>
            /\ students' = students
            /\ out'.n = grades_added
            /\ out'.total = Len(students[student].grades)]_vars

\* C3: an entry session that appended 100 behind an earlier 0 has reported 1
C3_Witness ==
    /\ out.msg = "completed"
    /\ out.n = 1
    /\ out.total = 2
    /\ \E i \in DOMAIN students : students[i].grades = <<FromInt(0), FromInt(100)>>

\* the students whose name equals the text case-insensitively
Matching(roster, text) == {i \in DOMAIN roster : lower(roster[i].name) = lower(text)}

\* C9: the add-grades action fails without asking for a name on an empty
\* roster and fails when no student matches the name, the roster unchanged;
\* otherwise it appends only to the grades of the one student whose name
\* matches case-insensitively, every other student, the names and the order
\* unchanged.  Show-report, find-top-performer and an invalid choice never
\* change the roster.
C9_AddGradesFrame ==
    [][/\ ChoiceStep =>
            /\ students' = students
            /\ (last_input' = <<"2">> /\ students = <<>>) =>
                  (pc' = "display_menu" /\ out'.msg = "error_no_students")
            /\ (last_input' = <<"2">> /\ students # <<>>) => pc' = "add_grades"
       /\ AddGradesFindStep =>
            /\ students' = students
            /\ IF Matching(students, last_input') = {}
               THEN out'.msg = "error_not_found" /\ pc' = "display_menu"
               ELSE /\ out'.msg = "adding_grades" /\ pc' = "grade_input"
                    /\ Matching(students, last_input') = {student'}
       /\ (GradeLoopStep \/ GradeDoneStep) =>
            /\ student \in DOMAIN students
            /\ Names(students') = Names(students)
            /\ \A i \in DOMAIN students : i # student => students'[i] = students[i]
            /\ IsPrefix(students[student].grades, students'[student].grades)
            /\ pc' = "grade_input" => student' = student]_vars

\* C9: the second student, who already has grades, was found under a name
\* written in another case
C9_Witness ==
    /\ out.msg = "adding_grades"
    /\ student = 2
    /\ students[2].name # last_input
    /\ students[2].grades # <<>>
    /\ students[1].grades # <<>>

\* C10: across every step the roster before it is a prefix of the roster
\* after it in names and order, and each student's grades before the step are
\* a prefix of that student's grades after it.
C10_RosterOnlyGrows ==
    [][/\ IsPrefix(Names(students), Names(students'))
       /\ \A i \in DOMAIN students :
             IsPrefix(students[i].grades, students'[i].grades)]_vars

\* C10: two students, the first with two grades and the second with one
C10_Witness ==
    /\ Len(students) = 2
    /\ Len(students[1].grades) >= 2
    /\ Len(students[2].grades) >= 1

\* C7: the menu loop ends only on choice '5' or on an interrupt, and an
\* interrupt arriving at any point of the loop ends it gracefully (the
\* handler's message, no uncaught exception); every validation failure and
\* every other exception is printed and the loop goes on to the next menu
\* with the roster intact.
C7_GracefulLoop ==
    /\ pc \in {"display_menu", "input_choice", "add_student", "add_grades",
               "grade_input", "exited"}
    /\ pc = "exited" => out.msg \in {"goodbye", "interrupted"}
    /\ out.msg \in {"error_name_letters", "error_already_exists", "error_not_found",
                    "error_no_students", "error_invalid_choice", "unexpected_error"}
          => pc = "display_menu"
    /\ out.msg \in {"error_invalid_input", "error_grade_range"} => pc = "grade_input"

\* the positions of the students with at least one grade
Graded(roster) == {i \in DOMAIN roster : roster[i].grades # <<>>}

\* the average of each student with at least one grade
Averages(roster) == [i \in Graded(roster) |-> calculate_average(roster[i].grades)]

\* the sum of a sequence of finite values, exactly
RECURSIVE ExactSum(_)
ExactSum(items) ==
    IF items = <<>> THEN FZero
    ELSE DAdd(ExactSum(SubSeq(items, 1, Len(items) - 1)), items[Len(items)])

\* the sum of the values of a function of finite domain, exactly
RECURSIVE ExactSumOver(_)
ExactSumOver(f) ==
    IF DOMAIN f = {} THEN FZero
    ELSE LET i == CHOOSE i \in DOMAIN f : TRUE
         IN  DAdd(f[i], ExactSumOver([j \in DOMAIN f \ {i} |-> f[j]]))

\* |v * count - total| <= total * 2^(3 - Precision): v is total / count up to
\* the rounding of the float operations (total >= 0)
MeanUpToRounding(v, total, count) ==
    /\ v.k = "fin"
    /\ DSign(DSub(DAbs(DSub(DMulNat(v, count), total)), DScale(total, 3 - Precision))) <= 0

\* what C5 says of the statistics short of its last sentence
SummaryContract(roster, stats) ==
    LET avgs == Averages(roster)
    IN  /\ \A i \in DOMAIN avgs :
              MeanUpToRounding(avgs[i], ExactSum(roster[i].grades), Len(roster[i].grades))
        /\ IF DOMAIN avgs = {}
           THEN stats = [highest |-> None, lowest |-> None, overall |-> None]
           ELSE /\ stats.highest \in Range(avgs)
                /\ \A i \in DOMAIN avgs : FLe(avgs[i], stats.highest)
                /\ stats.lowest \in Range(avgs)
                /\ \A i \in DOMAIN avgs : FLe(stats.lowest, avgs[i])
                /\ MeanUpToRounding(stats.overall, ExactSumOver(avgs), Cardinality(DOMAIN avgs))

\* C5 as stated: highest, lowest and overall are the maximum, the minimum and
\* the mean of the averages of the students with grades (absent exactly when
\* there is none), hence lowest <= overall <= highest whenever defined.
C5_AsStated ==
    out.msg = "report" =>
        \A stats \in {out.statistics} :
            /\ stats = calculate_summary_statistics(students)
            /\ SummaryContract(students, stats)
            /\ stats.overall # None =>
                  FLe(stats.lowest, stats.overall) /\ FLe(stats.overall, stats.highest)

\* C5 amended: highest and lowest are the maximum and the minimum of the
\* averages of the students with grades, overall is their mean as the float
\* operations compute it (each average and the overall within relative error
\* 2^-50 of the exact mean), all three absent exactly when no student has a
\* grade; lowest <= highest, and overall lies in [lowest, highest] only up to
\* that rounding error.
C5_SummaryUpToRounding ==
    out.msg = "report" =>
        \A stats \in {out.statistics} :
            /\ stats = calculate_summary_statistics(students)
            /\ SummaryContract(students, stats)
            /\ stats.overall # None =>
                  /\ FLe(stats.lowest, stats.highest)
                  /\ FLe(DSub(stats.lowest, DScale(stats.lowest, 3 - Precision)), stats.overall)
                  /\ FLe(stats.overall, DAdd(stats.highest, DScale(stats.highest, 3 - Precision)))

\* C5: a report whose overall average exceeds its highest average
C5_Witness ==
    /\ out.msg = "report"
    /\ out.statistics.overall # None
    /\ FLt(out.statistics.highest, out.statistics.overall)

\* C6: find_top_performer_data returns (None, None) exactly when no student
\* has a grade; otherwise a student with grades whose average is the maximum
\* among the students with grades, the first such student in roster order,
\* together with that average.
C6_TopPerformer ==
    out.msg = "top_performer" =>
    \A top \in {out.top} :
        LET avgs == Averages(students)
        IN  /\ top = find_top_performer_data(students)
            /\ IF DOMAIN avgs = {}
               THEN top = [top_student |-> 0, top_avg |-> None]
               ELSE /\ top.top_student \in DOMAIN avgs
                    /\ top.top_avg = avgs[top.top_student]
                    /\ \A i \in DOMAIN avgs : FLe(avgs[i], top.top_avg)
                    /\ \A i \in DOMAIN avgs :
                          i < top.top_student => FLt(avgs[i], top.top_avg)

\* C6: the first student has no grades, the second and the third average 0,
\* and the second is returned
C6_Witness ==
    /\ out.msg = "top_performer"
    /\ Len(students) = 3
    /\ students[1].grades = <<>>
    /\ students[3].grades # <<>>
    /\ calculate_average(students[3].grades) = FZero
    /\ out.top = [top_student |-> 2, top_avg |-> FZero]

\* C4: generate_profile gives Child for 0..12, Teenager for 13..19, Adult from
\* 20 and Unknown below 0, for every age, and nothing else.
C4_Classifier ==
    /\ \A age \in (0 - MaxAge)..(MaxAge + MaxAge) :
          /\ generate_profile(age) \in {"Child", "Teenager", "Adult", "Unknown"}
          /\ (0 <= age /\ age <= 12) <=> generate_profile(age) = "Child"
          /\ (13 <= age /\ age <= 19) <=> generate_profile(age) = "Teenager"
          /\ age >= 20 <=> generate_profile(age) = "Adult"
          /\ age < 0 <=> generate_profile(age) = "Unknown"
    /\ profile_pc = "done" =>
          /\ user_profile.life_stage = life_stage
          /\ (0 <= current_age /\ current_age <= 12) => life_stage = "Child"
          /\ (13 <= current_age /\ current_age <= 19) => life_stage = "Teenager"
          /\ current_age >= 20 => life_stage = "Adult"
          /\ current_age < 0 => life_stage = "Unknown"

\* C4: a profile built for the age 13
C4_Witness ==
    /\ profile_pc = "done"
    /\ current_age = 13
    /\ user_profile.life_stage = "Teenager"

\* C8: the profile's age is the year of the run minus the birth year, its
\* life stage is the classifier's label for that age, and its hobbies are the
\* lines entered before the first 'stop' (in any case), in order.
C8_ProfileOfRunYear ==
    profile_pc = "done" =>
        /\ user_profile.birth_year = birth_year
        /\ user_profile.age = clock_year - birth_year
        /\ user_profile.life_stage = generate_profile(clock_year - birth_year)
        /\ user_profile.hobbies = hobbies
        /\ \A i \in DOMAIN hobbies : lower(hobbies[i]) # STOP

====
